---- MODULE Spec2Model ----
(***************************************************************************)
(* A model of collate_moi_reports.py: the per-sample parser (parse_data,   *)
(* populate_list, pad_list, get_location), the batch runner (proc_vcfs,    *)
(* gen_moi_report) in its sequential and its thread-pool mode, and the     *)
(* program around them (get_args, main, print_title).                      *)
(*                                                                         *)
(* Strings are sequences of atoms.  An atom is a chunk of characters that  *)
(* the code never looks inside; the separators the code splits or joins on *)
(* (",", "\n", ":", " ", "=", ...) and the prefixes it tests for ("chr")   *)
(* are atoms of their own.  File names are sequences of single characters, *)
(* because get_names matches a regular expression against them.            *)
(*                                                                         *)
(* The two external tools are oracles: match_moi_report.pl is a function   *)
(* from the VCF file to (returncode, stdout), vcfExtractor.pl one stdout   *)
(* for the run.  Diagnostics on stderr are not part of the state.          *)
(***************************************************************************)
EXTENDS Integers, Sequences, FiniteSets, TLC

VARIABLES
    \* ---- the oracles (external collaborators) ----
    report,         \* match_moi_report.pl: file -> [returncode, stdout]
    extractor_out,  \* stdout of vcfExtractor.pl
    \* ---- parse_data applied to one report text ----
    report_data, dna, rna, result,
    \* ---- the program run ----
    pc,             \* position of the main thread
    args,           \* the parsed command line
    params,         \* moi_reporter_args handed to proc_vcfs
    task_state,     \* pooled mode: state of each submitted task
    items,          \* pooled mode: results queued for the iterator, in completion order
    next_i,         \* sequential mode: index of the file the loop is at; pooled: results consumed
    building,       \* the mapping under construction
    moi_data,       \* what proc_vcfs returned (None until it returns)
    writes,         \* history: every insertion into the mapping, <<thread, key>>
    invoked,        \* history: number of match_moi_report.pl invocations started
    outfile,        \* everything written to the report output
    exit_status     \* None while running

vars == <<report, extractor_out, report_data, dna, rna, result, pc, args, params,
          task_state, items, next_i, building, moi_data, writes, invoked,
          outfile, exit_status>>

parse_vars == <<report_data, dna, rna, result>>
run_vars == <<report, pc, args, params, task_state, items, next_i, building,
              moi_data, writes, invoked, outfile, exit_status>>

-----------------------------------------------------------------------------
(* Bounds *)

MaxLines == 2       \* lines in a report text handed to parse_data
MaxFiles == 2       \* length of the vcf_files list

-----------------------------------------------------------------------------
(* Values *)

S(a) == <<a>>               \* the one-atom string
None == <<"<None>">>        \* Python's None; no input string is made of this atom
dash == S("-")

Ok(v) == [exc |-> "", val |-> v]
Raise(e) == [exc |-> e, val |-> <<>>]
IsOk(r) == r.exc = ""

\* d[k] = v on a dict
Put(d, k, v) == [x \in (DOMAIN d) \cup {k} |-> IF x = k THEN v ELSE d[x]]

\* defaultdict(dict): reading a missing key yields (and stores) an empty dict
Bucket(d, k) == IF k \in DOMAIN d THEN d[k] ELSE <<>>

RECURSIVE reverse(_)
reverse(l) == IF l = <<>> THEN <<>> ELSE Append(reverse(Tail(l)), Head(l))

RECURSIVE concat(_)
concat(ls) == IF ls = <<>> THEN <<>> ELSE Head(ls) \o concat(Tail(ls))

\* str.split(sep): the pieces between the separators, always at least one
RECURSIVE split_from(_, _, _, _)
split_from(s, sep, cur, i) ==
    IF i > Len(s) THEN <<cur>>
    ELSE IF s[i] = sep THEN <<cur>> \o split_from(s, sep, <<>>, i + 1)
    ELSE split_from(s, sep, Append(cur, s[i]), i + 1)

split(s, sep) == split_from(s, sep, <<>>, 1)

\* str.split(): the runs of non-blank atoms
RECURSIVE drop_empty(_)
drop_empty(ps) ==
    IF ps = <<>> THEN <<>>
    ELSE IF Head(ps) = <<>> THEN drop_empty(Tail(ps))
    ELSE <<Head(ps)>> \o drop_empty(Tail(ps))

split_ws(s) == drop_empty(split(s, " "))

\* sep.join(list)
RECURSIVE join(_, _)
join(sep, l) ==
    IF l = <<>> THEN <<>>
    ELSE IF Len(l) = 1 THEN l[1]
    ELSE l[1] \o <<sep>> \o join(sep, Tail(l))

-----------------------------------------------------------------------------
(* populate_list, pad_list *)

wanted_fields ==
    [snv     |-> <<0, 9, 1, 2, 3, 10, 11, 12, 8, 4, 5, 6, 7, 13>>,
     cnv     |-> <<0, 1, 2, 5>>,
     fusions |-> <<0, 4, 2, 1, 3>>]

\* a wanted list that stops at the fields a line has, instead of failing
populate_list_lenient(var_type, var_data) ==
    Ok([i \in 1..Len(wanted_fields[var_type]) |->
          IF wanted_fields[var_type][i] < Len(var_data)
          THEN var_data[wanted_fields[var_type][i] + 1] ELSE dash])

\* [var_data[x] for x in wanted_fields[var_type]]; an index past the end
\* of var_data raises IndexError
populate_list(var_type, var_data) ==
    IF \E i \in 1..Len(wanted_fields[var_type]) :
          wanted_fields[var_type][i] >= Len(var_data)
    THEN Raise("IndexError")
    ELSE Ok([i \in 1..Len(wanted_fields[var_type]) |->
               var_data[wanted_fields[var_type][i] + 1]])

pad_positions ==
    [cnv |-> <<0, 1, 2, 9>>, fusions |-> <<0, 1, 8, 4, 10>>, snv |-> <<>>]

\* the padding map shifted by one column
pad_positions_shifted ==
    [cnv |-> <<0, 1, 2, 10>>, fusions |-> <<0, 1, 8, 4, 11>>, snv |-> <<>>]

TemplateWidth == 15

\* for i in positions: tmp_list[i] = data_list.pop()
RECURSIVE pad_fill(_, _, _)
pad_fill(tmp_list, data_list, positions) ==
    IF positions = <<>> THEN tmp_list
    ELSE pad_fill([tmp_list EXCEPT ![Head(positions) + 1] = data_list[Len(data_list)]],
                  SubSeq(data_list, 1, Len(data_list) - 1),
                  Tail(positions))

pad_list_shifted(data_list, data_type) ==
    pad_fill([i \in 1..TemplateWidth |-> dash], reverse(data_list),
             pad_positions_shifted[data_type])

pad_list(data_list, data_type) ==
    pad_fill([i \in 1..TemplateWidth |-> dash], reverse(data_list),
             pad_positions[data_type])

-----------------------------------------------------------------------------
(* get_location *)

startswith_chr(l) == l # <<>> /\ l[1] = "chr"

\* l.split()[12]
column_12(cols) == IF Len(cols) > 12 THEN Ok(cols[13]) ELSE Raise("IndexError")

\* for l in lines: if l.startswith('chr'): return l.split()[12]
\* falls off the end (None) when no line starts with chr
RECURSIVE first_chr_location(_)
first_chr_location(lines) ==
    IF lines = <<>> THEN Ok(None)
    ELSE IF startswith_chr(Head(lines)) THEN column_12(split_ws(Head(lines)))
    ELSE first_chr_location(Tail(lines))

get_location(pos, vcf, stdout) == first_chr_location(split(stdout, "\n"))

-----------------------------------------------------------------------------
(* parse_data *)

snv_varid_swapped(fields) == fields[2] \o S(":") \o fields[10]

\* fields[9] + ':' + fields[1]
snv_varid(fields) == fields[10] \o S(":") \o fields[2]

\* fields[1] + ':' + fields[2]
cnv_varid(fields) == fields[2] \o S(":") \o fields[3]

NullWidth == 11

null_row(dna_samp) == <<dna_samp>> \o [i \in 1..NullWidth |-> dash]

\* data[cls][varid] = row
store(data, cls, varid, row) == Put(data, cls, Put(Bucket(data, cls), varid, row))

\* data['snv_data'][varid] = [dna] + populate_list('snv', fields), then
\* .append(get_location(fields[1], vcf)); p and loc are the two calls' outcomes
snv_entry(data, fields, dna_samp, p, loc) ==
    IF ~IsOk(p) THEN p
    ELSE IF ~IsOk(loc) THEN loc
    ELSE Ok(store(data, "snv_data", snv_varid(fields), <<dna_samp>> \o p.val \o <<loc.val>>))

\* data['cnv_data'][varid] = [dna] + pad_list(populate_list('cnv', fields), 'cnv')
cnv_entry(data, fields, dna_samp, p) ==
    IF ~IsOk(p) THEN p
    ELSE Ok(store(data, "cnv_data", cnv_varid(fields), <<dna_samp>> \o pad_list(p.val, "cnv")))

\* data['fusion_data'][varid] = [rna] + pad_list(populate_list('fusions', fields), 'fusions')
fusion_entry(data, fields, rna_samp, p) ==
    IF ~IsOk(p) THEN p
    ELSE Ok(store(data, "fusion_data", cnv_varid(fields),
                  <<rna_samp>> \o pad_list(p.val, "fusions")))

\* The if/elif chain on fields[0].  data is the defaultdict so far; the value
\* is Ok(new data) or the exception raised.
parse_fields(data, fields, dna_samp, rna_samp, vcf, stdout) ==
    CASE fields[1] = S("SNV") ->
           IF Len(fields) < 10 THEN Raise("IndexError")
           ELSE snv_entry(data, fields, dna_samp, populate_list("snv", fields),
                          get_location(fields[2], vcf, stdout))
      [] fields[1] = S("CNV") ->
           IF Len(fields) < 3 THEN Raise("IndexError")
           ELSE cnv_entry(data, fields, dna_samp, populate_list("cnv", fields))
      [] fields[1] = S("Fusion") ->
           IF Len(fields) < 3 THEN Raise("IndexError")
           ELSE fusion_entry(data, fields, rna_samp, populate_list("fusions", fields))
      [] OTHER -> Ok(data)

\* one iteration of the loop over raw_data
parse_line(data, line, dna_samp, rna_samp, vcf, stdout) ==
    parse_fields(data, split(line, ","), dna_samp, rna_samp, vcf, stdout)

\* the loop over raw_data; r is the outcome of the iteration before
RECURSIVE parse_lines(_, _, _, _, _, _)
parse_lines(r, raw_data, dna_samp, rna_samp, vcf, stdout) ==
    IF ~IsOk(r) \/ raw_data = <<>> THEN r
    ELSE parse_lines(parse_line(r.val, Head(raw_data), dna_samp, rna_samp, vcf, stdout),
                     Tail(raw_data), dna_samp, rna_samp, vcf, stdout)

\* the placeholder row is added whenever the sample has no SNV
add_null_if_no_snv(r, dna_samp) ==
    IF ~IsOk(r) THEN r
    ELSE IF "snv_data" \notin DOMAIN r.val
         THEN Ok(Put(r.val, "null", Put(<<>>, S("no_result"), null_row(dna_samp))))
         ELSE r

\* if not data: data['null']['no_result'] = [dna] + ['-']*11; return dict(data)
add_null(r, dna_samp) ==
    IF ~IsOk(r) THEN r
    ELSE IF DOMAIN r.val = {}
         THEN Ok(Put(r.val, "null", Put(<<>>, S("no_result"), null_row(dna_samp))))
         ELSE r

parse_data(text, dna_samp, rna_samp, vcf, stdout) ==
    add_null(parse_lines(Ok(<<>>), split(text, "\n"), dna_samp, rna_samp, vcf, stdout),
             dna_samp)

\* the header row main writes
header ==
    <<S("Sample"), S("Type"), S("Gene"), S("Position"), S("Ref"), S("Alt"),
      S("Transcript"), S("CDS"), S("AA"), S("VARID"), S("VAF/CN"),
      S("Coverage/Counts"), S("RefCov"), S("AltCov"), S("Function"), S("Location")>>

-----------------------------------------------------------------------------
(* Report lines and texts parse_data is applied to.  A line is given by its *)
(* fields; the text is the lines joined by "\n", each the fields joined by  *)
(* ",".                                                                     *)

SNV_A == <<S("SNV"), <<"chr7", ":", "140453136">>, S("A"), S("T"), S("0.45"),
           S("1200"), S("660"), S("540"), S("COSM476"), S("BRAF"),
           S("NM_004333"), S("c.1799T>A"), S("p.V600E"), S("missense")>>

\* same gene and position as SNV_A, other read counts
SNV_B == [SNV_A EXCEPT ![5] = S("0.10"), ![8] = S("120")]

\* the 11-field line of the end-to-end scenario
SNV_11 == <<S("SNV"), S("chr7"), S("140453136"), S("A"), S("T"), S("p.V600E"),
            S("NM_004333"), S("c.1799T>A"), S("Missense"), S("rs113488022"),
            S("VAF=0.45")>>

\* the same line with the three further fields the SNV layout reads
SNV_14 == SNV_11 \o <<S("c.1799T>A"), S("p.V600E"), S("missense")>>

CNV_A == <<S("CNV"), S("ERBB2"), <<"chr17", ":", "37868155">>, S("17"),
           S("9.1"), S("12.5")>>

CNV_short == SubSeq(CNV_A, 1, 3)

FUS_A == <<S("Fusion"), S("EML4-ALK.E6aA20"), S("COSF408"), S("2500"), S("ALK")>>

FUS_short == SubSeq(FUS_A, 1, 2)

blank_line == <<<<>>>>

other_line == <<S("Type"), S("Gene"), S("Position")>>

\* a first field that only begins with a tag: "CNVs,ERBB2"
near_line == <<<<"CNV", "s">>, S("ERBB2")>>

Lines == {SNV_A, SNV_B, SNV_11, SNV_14, CNV_A, CNV_short, FUS_A, FUS_short,
          blank_line, other_line, near_line}

line_text(fields) == join(",", fields)

text_of(lines) == join("\n", [i \in 1..Len(lines) |-> line_text(lines[i])])

SeqsUpTo(X, n) == UNION {[1..k -> X] : k \in 0..n}

\* what vcfExtractor.pl may print: nothing that starts with chr, a chr line
\* with the 13 columns get_location reads, a chr line with fewer
extractor_none == <<"CHROM", ":", "POS", " ", "REF", " ", "ALT">>
extractor_full ==
    extractor_none \o <<"\n", "chr", "7", ":", "140453136">>
        \o concat([i \in 1..11 |-> <<" ", "col">>]) \o <<" ", "exonic">>
extractor_cut == extractor_none \o <<"\n", "chr", "7", ":", "140453136", " ", "A", " ", "T">>

ExtractorOutputs == {extractor_none, extractor_full, extractor_cut}

Samples == {<<S("patientA"), S("patientA-RNA")>>, <<S("patientB"), S("patientB")>>}

Pending == [exc |-> "pending", val |-> <<>>]
harness_vcf == <<"x", ".", "v", "c", "f">>

RunIdle ==
    /\ report = <<>>
    /\ pc = "idle"
    /\ args = <<>>
    /\ params = <<>>
    /\ task_state = <<>>
    /\ items = <<>>
    /\ next_i = 0
    /\ building = <<>>
    /\ moi_data = None
    /\ writes = <<>>
    /\ invoked = 0
    /\ outfile = <<>>
    /\ exit_status = None

InitParse ==
    /\ \E ls \in SeqsUpTo(Lines, MaxLines) : report_data = text_of(ls)
    /\ \E s \in Samples : dna = s[1] /\ rna = s[2]
    /\ extractor_out \in ExtractorOutputs
    /\ result = Pending
    /\ RunIdle

ParseData ==
    /\ result = Pending
    /\ result' = parse_data(report_data, dna, rna, harness_vcf, extractor_out)
    /\ UNCHANGED <<report_data, dna, rna, extractor_out>>
    /\ UNCHANGED run_vars

NextParse == ParseData

SpecParse == InitParse /\ [][NextParse]_vars

-----------------------------------------------------------------------------
(* Properties of parse_data *)

Parsed == result # Pending
raw_lines == split(report_data, "\n")
Tag(line) == split(line, ",")[1]
Recognized(line) == Tag(line) \in {S("SNV"), S("CNV"), S("Fusion")}
FieldsRequired(line) ==
    IF Tag(line) = S("SNV") THEN 14 ELSE IF Tag(line) = S("CNV") THEN 6 ELSE 5
TooShort(line) == Recognized(line) /\ Len(split(line, ",")) < FieldsRequired(line)
Without(i) == text_of([j \in 1..(Len(raw_lines) - 1) |->
                         split(IF j < i THEN raw_lines[j] ELSE raw_lines[j + 1], ",")])

\* C3: every row parse_data builds, whichever class produced it, has as many
\* fields as the header row has columns.
C3_RowWidthIsHeaderWidth ==
    (Parsed /\ IsOk(result)) =>
        \A c \in DOMAIN result.val : \A k \in DOMAIN result.val[c] :
            Len(result.val[c][k]) = Len(header)

\* C4: a text with no SNV/CNV/Fusion line yields a bundle of exactly one row,
\* under the NoResult class, led by the DNA identifier and otherwise all "-";
\* a text with a recognized line yields a bundle without a NoResult row.
C4_NoResultIffNothingRecognized ==
    Parsed =>
        IF \A i \in 1..Len(raw_lines) : ~Recognized(raw_lines[i])
        THEN /\ IsOk(result)
             /\ DOMAIN result.val = {"null"}
             /\ Cardinality(DOMAIN result.val["null"]) = 1
             /\ \A k \in DOMAIN result.val["null"] :
                   LET row == result.val["null"][k]
                   IN  /\ Len(row) > 1
                       /\ row[1] = dna
                       /\ \A j \in 2..Len(row) : row[j] = dash
        ELSE IsOk(result) => "null" \notin DOMAIN result.val

C4_Witness ==
    /\ Parsed
    /\ report_data # <<>>
    /\ \A i \in 1..Len(raw_lines) : ~Recognized(raw_lines[i])
    /\ IsOk(result) /\ "null" \in DOMAIN result.val

\* C7 as claimed: every malformed line - blank, unrecognized tag, or tagged
\* with fewer fields than its class requires - is skipped: parse_data does
\* what it does for the text without that line.
C7_MalformedLineSkipped ==
    Parsed =>
        \A i \in 1..Len(raw_lines) :
            (~Recognized(raw_lines[i]) \/ TooShort(raw_lines[i])) =>
                result = parse_data(Without(i), dna, rna, harness_vcf, extractor_out)

\* C7 amended: a blank line or a line with an unrecognized tag is skipped
\* (parse_data does what it does for the text without it); a line tagged SNV,
\* CNV or Fusion with fewer fields than its class requires is not skipped:
\* parse_data raises IndexError and returns no bundle.
C7_UnrecognizedSkippedShortRaises ==
    Parsed =>
        \A i \in 1..Len(raw_lines) :
            /\ ~Recognized(raw_lines[i]) =>
                  result = parse_data(Without(i), dna, rna, harness_vcf, extractor_out)
            /\ TooShort(raw_lines[i]) => result = Raise("IndexError")

C7_Witness ==
    /\ Parsed
    /\ Len(raw_lines) = 2
    /\ raw_lines[1] = line_text(other_line)
    /\ raw_lines[2] = line_text(CNV_A)
    /\ IsOk(result) /\ DOMAIN result.val = {"cnv_data"}

C8_key_claimed == <<"rs113488022", ":", "140453136">>
C8_key_built == <<"rs113488022", ":", "chr7">>

\* C8 as claimed: the 11-field SNV line for patientA yields a bundle whose SNV
\* bucket holds exactly one row, beginning with patientA, under the key
\* rs113488022:140453136.
C8_ElevenFieldLineYieldsRow ==
    (Parsed /\ report_data = line_text(SNV_11) /\ dna = S("patientA")) =>
        /\ IsOk(result)
        /\ "snv_data" \in DOMAIN result.val
        /\ DOMAIN result.val["snv_data"] = {C8_key_claimed}
        /\ result.val["snv_data"][C8_key_claimed][1] = S("patientA")

\* C8 amended: on the 11-field line parse_data raises IndexError (the SNV
\* layout reads fields up to index 13) and returns no bundle; on the same line
\* carrying the three further fields, when the location lookup returns, the
\* bundle's SNV bucket holds exactly one row, beginning with patientA, under
\* the key rs113488022:chr7 (field 9, ":", field 1).
C8_FourteenFieldLineYieldsRow ==
    /\ (Parsed /\ report_data = line_text(SNV_11)) => result = Raise("IndexError")
    /\ (Parsed /\ report_data = line_text(SNV_14) /\ dna = S("patientA")
          /\ extractor_out # extractor_cut) =>
        /\ IsOk(result)
        /\ DOMAIN result.val = {"snv_data"}
        /\ DOMAIN result.val["snv_data"] = {C8_key_built}
        /\ result.val["snv_data"][C8_key_built][1] = S("patientA")

C8_Witness ==
    /\ Parsed /\ report_data = line_text(SNV_14) /\ dna = S("patientA")
    /\ IsOk(result)

\* the layouts as the claim states them: <<template position, source field>>
C9_cnv_layout == <<<<0, 0>>, <<1, 1>>, <<2, 2>>, <<9, 5>>>>
C9_fusion_layout == <<<<0, 0>>, <<1, 4>>, <<8, 2>>, <<4, 1>>, <<10, 3>>>>
C9_snv_order == <<0, 9, 1, 2, 3, 10, 11, 12, 8, 4, 5, 6, 7, 13>>

C9_Padded(row, lead, fields, layout) ==
    /\ Len(row) = 16
    /\ row[1] = lead
    /\ \A j \in 0..14 :
          IF \E m \in 1..Len(layout) : layout[m][1] = j
          THEN \E m \in 1..Len(layout) :
                  layout[m][1] = j /\ row[j + 2] = fields[layout[m][2] + 1]
          ELSE row[j + 2] = dash

C9_Unpadded(row, lead, fields) ==
    /\ Len(row) = 16
    /\ row[1] = lead
    /\ \A j \in 1..14 : row[j + 1] = fields[C9_snv_order[j] + 1]

C9_FromSomeLine(row, tag) ==
    \E i \in 1..Len(raw_lines) :
        LET fields == split(raw_lines[i], ",")
        IN  /\ fields[1] = S(tag)
            /\ CASE tag = "CNV" -> C9_Padded(row, dna, fields, C9_cnv_layout)
                 [] tag = "Fusion" -> C9_Padded(row, rna, fields, C9_fusion_layout)
                 [] OTHER -> C9_Unpadded(row, dna, fields)

C9_class == [snv_data |-> "SNV", cnv_data |-> "CNV", fusion_data |-> "Fusion"]

\* C9: a CNV row has exactly the 4 template positions 0,1,2,9 filled from the
\* fields 0,1,2,5 and "-" elsewhere; a Fusion row has the 5 positions
\* 0,1,8,4,10 filled from fields 0,4,2,1,3, "-" elsewhere, and is led by the
\* RNA name; an SNV row carries source values at every position.
C9_RowLayout ==
    (Parsed /\ IsOk(result)) =>
        /\ \A c \in DOMAIN result.val \cap DOMAIN C9_class :
              \A k \in DOMAIN result.val[c] :
                  C9_FromSomeLine(result.val[c][k], C9_class[c])
        /\ \A i \in 1..Len(raw_lines) :
              Recognized(raw_lines[i]) =>
                  \E c \in DOMAIN result.val \cap DOMAIN C9_class :
                      /\ S(C9_class[c]) = Tag(raw_lines[i])
                      /\ result.val[c] # <<>>

C9_Witness ==
    /\ Parsed /\ IsOk(result)
    /\ {"cnv_data", "fusion_data"} \subseteq DOMAIN result.val
    /\ rna # dna

-----------------------------------------------------------------------------
(* get_args, get_names, parse_cnv_params, print_title *)

\* an optional integer: <<>> is None, <<n>> the integer n
NoInt == <<>>
truthy(x) == x # NoInt /\ x[1] # 0

chars_cu == <<"-", "-", "c", "u">>
chars_cl == <<"-", "-", "c", "l">>
chars_cn == <<"-", "-", "c", "n">>

digits == <<"0", "1", "2", "3", "4", "5", "6", "7", "8", "9">>

\* str(n) for n >= 0
RECURSIVE str(_)
str(n) == IF n < 10 THEN <<digits[n + 1]>> ELSE str(n \div 10) \o <<digits[(n % 10) + 1]>>

default_cn == 7
default_reads == 1000

\* the check at the end of get_args: the arguments as returned, or the
\* sys.exit(1)
get_args_check(a) ==
    IF truthy(a.cu) \/ truthy(a.cl)
    THEN IF truthy(a.cu) /\ truthy(a.cl)
         THEN Ok([a EXCEPT !.cn = NoInt])
         ELSE Raise("SystemExit(1)")
    ELSE Ok(a)

\* [[k, str(v)] for k, v in params.items() if v], flattened
parse_cnv_params(cu, cl, cn) ==
    (IF truthy(cu) THEN <<chars_cu, str(cu[1])>> ELSE <<>>)
        \o (IF truthy(cl) THEN <<chars_cl, str(cl[1])>> ELSE <<>>)
        \o (IF truthy(cn) THEN <<chars_cn, str(cn[1])>> ELSE <<>>)

RECURSIVE lstrip(_, _)
lstrip(s, chars) ==
    IF s # <<>> /\ s[1] \in chars THEN lstrip(Tail(s), chars) ELSE s

RECURSIVE rstrip(_, _)
rstrip(s, chars) ==
    IF s # <<>> /\ s[Len(s)] \in chars
    THEN rstrip(SubSeq(s, 1, Len(s) - 1), chars) ELSE s

\* str.replace(old, new)
RECURSIVE replace(_, _, _)
replace(s, old, new) ==
    IF Len(s) < Len(old) THEN s
    ELSE IF SubSeq(s, 1, Len(old)) = old
         THEN new \o replace(SubSeq(s, Len(old) + 1, Len(s)), old, new)
         ELSE <<s[1]>> \o replace(Tail(s), old, new)

contains(s, sub) ==
    \E i \in 1..(Len(s) - Len(sub) + 1) : SubSeq(s, i, i + Len(sub) - 1) = sub

\* '='.join([x.lstrip('--') for x in cnv_params])
joined_params(cnv_params) ==
    join("=", [i \in 1..Len(cnv_params) |-> lstrip(cnv_params[i], {"-"})])

\* if 'cl' in string_params: string_params = string_params.replace('=cl', '; cl')
cl_marked(string_params) ==
    IF contains(string_params, <<"c", "l">>)
    THEN replace(string_params, <<"=", "c", "l">>, <<";", " ", "c", "l">>)
    ELSE string_params

rule == [i \in 1..95 |-> "-"]

\* the four writes of print_title
print_title(cu, cl, cn, reads, pedmatch) ==
    <<rule,
      <<"\n", "Collated ", IF pedmatch THEN "Pediatric MATCH" ELSE "Adult MATCH",
        " MOI Reports Using Params CNV: ">>
          \o cl_marked(joined_params(parse_cnv_params(cu, cl, cn)))
          \o <<", Fusion Reads: reads=">> \o str(reads) \o <<"\n">>,
      rule,
      <<"\n">>>>

\* moi_reporter_args as main builds them
moi_reporter_args(a) ==
    parse_cnv_params(a.cu, a.cl, a.cn)
        \o (IF ~a.blood THEN <<<<"-", "r">>, str(a.reads), <<"-", "R">>>>
            ELSE <<<<"-", "R">>, <<"-", "b">>>>)
        \o (IF a.pedmatch THEN <<<<"-", "p">>>> ELSE <<>>)

basename(path) == LET ps == split(path, "/") IN ps[Len(ps)]

\* re.search('(.*?DNA)_(.*).vcf$', string): the ends of the prefixes that end
\* in DNA, are followed by "_" and leave room for one character and "vcf" at
\* the end of the string
dna_match_ends(b) ==
    {i \in 3..(Len(b) - 5) :
        /\ SubSeq(b, i - 2, i) = <<"D", "N", "A">>
        /\ b[i + 1] = "_"
        /\ SubSeq(b, Len(b) - 2, Len(b)) = <<"v", "c", "f">>}

\* .group(1, 2) of the match with the shortest first group; without a match,
\* string.rstrip('.vcf') for both names
names_of(b, ends) ==
    IF ends # {}
    THEN <<SubSeq(b, 1, CHOOSE i \in ends : \A j \in ends : i <= j),
           SubSeq(b, (CHOOSE i \in ends : \A j \in ends : i <= j) + 2, Len(b) - 4)>>
    ELSE <<rstrip(b, {".", "v", "c", "f"}), rstrip(b, {".", "v", "c", "f"})>>

get_names(string) == names_of(basename(string), dna_match_ends(basename(string)))

-----------------------------------------------------------------------------
(* gen_moi_report, proc_vcfs *)

\* what gen_moi_report returns for the parse outcome d: the bundle, or the
\* tuple (vcf, bundle)
tagged(vcf, proc_type, d) ==
    IF ~IsOk(d) THEN d
    ELSE IF proc_type = "single" THEN d
    ELSE Ok(<<vcf, d.val>>)

\* the report keyed by the DNA sample name instead of the file
report_of_by_sample(vcf, proc_type, rep, names, stdout) ==
    IF rep.returncode # 0 THEN Raise("Exception")
    ELSE tagged(names[1], proc_type, parse_data(rep.stdout, names[1], names[2], vcf, stdout))

\* gen_moi_report after get_names and Popen/communicate: rep is what the
\* reporter did, names the (dna, rna) pair
report_of(vcf, proc_type, rep, names, stdout) ==
    IF rep.returncode # 0 THEN Raise("Exception")
    ELSE tagged(vcf, proc_type, parse_data(rep.stdout, names[1], names[2], vcf, stdout))

gen_moi_report(vcf, ps, proc_type, rep, stdout) ==
    report_of(vcf, proc_type, rep[vcf], get_names(vcf), stdout)

arg_star(task, rep, stdout) == gen_moi_report(task[1], task[2], task[3], rep, stdout)

\* every file submitted twice
task_list_twice(vcf_files, ps) ==
    [i \in 1..(2 * Len(vcf_files)) |->
        <<vcf_files[((i - 1) % Len(vcf_files)) + 1], ps, "threaded">>]

\* [(v, params, 'threaded') for v in vcf_files]
task_list(vcf_files, ps) ==
    [i \in 1..Len(vcf_files) |-> <<vcf_files[i], ps, "threaded">>]

\* moi_data[v] = r, r the outcome of gen_moi_report(v, params, 'single')
assigned(data, v, r) == IF IsOk(r) THEN Ok(Put(data, v, r.val)) ELSE r

\* the body of the sequential loop: moi_data[v] = gen_moi_report(v, params, 'single')
single_body(data, v, ps, rep, stdout) ==
    assigned(data, v, gen_moi_report(v, ps, "single", rep, stdout))

\* the sequential loop; r is the outcome of the iteration before
RECURSIVE single_loop(_, _, _, _, _)
single_loop(r, vcf_files, ps, rep, stdout) ==
    IF ~IsOk(r) \/ vcf_files = <<>> THEN r
    ELSE single_loop(single_body(r.val, Head(vcf_files), ps, rep, stdout),
                     Tail(vcf_files), ps, rep, stdout)

\* the sequential branch of proc_vcfs as a whole
proc_vcfs_single(vcf_files, ps, rep, stdout) ==
    single_loop(Ok(<<>>), vcf_files, ps, rep, stdout)

\* pool.join() returns at once
pool_joined_nowait(ts) == TRUE

\* pool.join() after pool.close(): returns when every submitted task has run
pool_joined(ts) == \A i \in 1..Len(ts) : ts[i] = "done"

-----------------------------------------------------------------------------
(* The program run *)

file_paired == <<"a", "D", "N", "A", "_", "b", ".", "v", "c", "f">>
file_plain == <<"x", ".", "v", "c", "f">>
Files == {file_paired, file_plain}

FileLists == SeqsUpTo(Files, MaxFiles) \ {<<>>}    \* nargs="+"

OptInts == {NoInt, <<0>>, <<5>>}
NumProcs == {1, 2}

\* what match_moi_report.pl may do on a file: fail, or print one of these
ReportTexts == {<<>>,
                text_of(<<other_line, CNV_A, FUS_A>>),
                text_of(<<SNV_A>>)}
ReportOutcomes ==
    {[returncode |-> 1, stdout |-> <<>>]}
        \cup {[returncode |-> 0, stdout |-> t] : t \in ReportTexts}

Range(f) == {f[i] : i \in DOMAIN f}
NotReturned == [exc |-> "pending", val |-> <<>>]

ParseIdle ==
    /\ report_data = <<>>
    /\ dna = <<>>
    /\ rna = <<>>
    /\ result = Pending

\* the command line as argparse returns it; -p, -b and --reads keep their defaults
Init ==
    /\ \E fl \in FileLists, cu \in OptInts, cl \in OptInts, n \in NumProcs :
          /\ args = [vcf_files |-> fl, cn |-> <<default_cn>>, cu |-> cu, cl |-> cl,
                     reads |-> default_reads, pedmatch |-> FALSE, blood |-> FALSE,
                     num_procs |-> n]
          /\ report \in [Range(fl) -> ReportOutcomes]
    /\ extractor_out \in ExtractorOutputs
    /\ pc = "get_args"
    /\ params = <<>>
    /\ task_state = <<>>
    /\ items = <<>>
    /\ next_i = 0
    /\ building = <<>>
    /\ moi_data = NotReturned
    /\ writes = <<>>
    /\ invoked = 0
    /\ outfile = <<>>
    /\ exit_status = NoInt
    /\ ParseIdle

\* get_args, after parse_args: the cu/cl check
GetArgs ==
    /\ pc = "get_args"
    /\ \E r \in {get_args_check(args)} :
           IF IsOk(r)
           THEN /\ args' = r.val
                /\ pc' = "main"
                /\ UNCHANGED exit_status
           ELSE /\ pc' = "config_error"
                /\ exit_status' = <<1>>
                /\ UNCHANGED args
    /\ UNCHANGED <<report, extractor_out, params, task_state, items, next_i, building,
                   moi_data, writes, invoked, outfile>>
    /\ UNCHANGED parse_vars

\* main up to the call of proc_vcfs, and proc_vcfs up to its loop or its pool
MainCallProcVcfs ==
    /\ pc = "main"
    /\ params' = moi_reporter_args(args)
    /\ building' = <<>>
    /\ next_i' = 0
    /\ IF args.num_procs < 2
       THEN /\ pc' = "single_loop"
            /\ UNCHANGED task_state
       ELSE /\ pc' = "iterating"
            /\ task_state' = [i \in 1..Len(task_list(args.vcf_files, params')) |-> "queued"]
    /\ UNCHANGED <<report, extractor_out, args, items, moi_data, writes, invoked,
                   outfile, exit_status>>
    /\ UNCHANGED parse_vars

\* one iteration of "for v in vcf_files" (num_procs < 2); an exception of
\* gen_moi_report leaves proc_vcfs and main and ends the program
SingleIteration ==
    /\ pc = "single_loop"
    /\ next_i < Len(args.vcf_files)
    /\ invoked' = invoked + 1
    /\ \E r \in {single_body(building, args.vcf_files[next_i + 1], params, report,
                             extractor_out)} :
          IF IsOk(r)
          THEN /\ building' = r.val
               /\ writes' = Append(writes, <<"main", args.vcf_files[next_i + 1]>>)
               /\ next_i' = next_i + 1
               /\ UNCHANGED <<pc, moi_data, exit_status>>
          ELSE /\ pc' = "traceback"
               /\ moi_data' = r
               /\ exit_status' = <<1>>
               /\ UNCHANGED <<building, writes, next_i>>
    /\ UNCHANGED <<report, extractor_out, args, params, task_state, items, outfile>>
    /\ UNCHANGED parse_vars

\* the loop is over: return moi_data
SingleReturn ==
    /\ pc = "single_loop"
    /\ next_i = Len(args.vcf_files)
    /\ moi_data' = Ok(building)
    /\ pc' = "returned"
    /\ UNCHANGED <<report, extractor_out, args, params, task_state, items, next_i,
                   building, writes, invoked, outfile, exit_status>>
    /\ UNCHANGED parse_vars

\* a pool thread takes the next task off the queue and starts match_moi_report.pl
WorkerTake(i) ==
    /\ pc \in {"iterating", "closing_ok", "closing_exc", "closing_int"}
    /\ i \in 1..Len(task_state)
    /\ task_state[i] = "queued"
    /\ \A j \in 1..(i - 1) : task_state[j] # "queued"
    /\ Cardinality({j \in 1..Len(task_state) : task_state[j] = "running"}) < args.num_procs
    /\ task_state' = [task_state EXCEPT ![i] = "running"]
    /\ invoked' = invoked + 1
    /\ UNCHANGED <<report, extractor_out, args, params, pc, items, next_i, building,
                   moi_data, writes, outfile, exit_status>>
    /\ UNCHANGED parse_vars

\* a pool thread finishes arg_star(task); the value or the exception joins
\* the iterator's queue
WorkerFinish(i) ==
    /\ i \in 1..Len(task_state)
    /\ task_state[i] = "running"
    /\ task_state' = [task_state EXCEPT ![i] = "done"]
    /\ items' = Append(items, arg_star(task_list(args.vcf_files, params)[i],
                                       report, extractor_out))
    /\ UNCHANGED <<report, extractor_out, args, params, pc, next_i, building,
                   moi_data, writes, invoked, outfile, exit_status>>
    /\ UNCHANGED parse_vars

\* the dict comprehension takes the next result of imap_unordered: an entry
\* of the new dict, or the task's exception raised in the main thread
\* (except Exception: pool.close())
IterNext ==
    /\ pc = "iterating"
    /\ next_i < Len(items)
    /\ \E r \in {items[next_i + 1]} :
           IF IsOk(r)
           THEN /\ building' = Put(building, r.val[1], r.val[2])
                /\ writes' = Append(writes, <<"main", r.val[1]>>)
                /\ next_i' = next_i + 1
                /\ IF next_i + 1 = Len(task_state)
                   THEN /\ moi_data' = Ok(building')
                        /\ pc' = "closing_ok"
                   ELSE UNCHANGED <<moi_data, pc>>
           ELSE /\ moi_data' = r
                /\ pc' = "closing_exc"
                /\ UNCHANGED <<building, writes, next_i>>
    /\ UNCHANGED <<report, extractor_out, args, params, task_state, items, invoked,
                   outfile, exit_status>>
    /\ UNCHANGED parse_vars

\* Ctrl-C while the main thread waits in the comprehension
\* (except KeyboardInterrupt: pool.close())
KeyboardInterrupt ==
    /\ pc = "iterating"
    /\ pc' = "closing_int"
    /\ moi_data' = Raise("KeyboardInterrupt")
    /\ UNCHANGED <<report, extractor_out, args, params, task_state, items, next_i,
                   building, writes, invoked, outfile, exit_status>>
    /\ UNCHANGED parse_vars

\* pool.join() returns; then "return moi_data", "raise" or "sys.exit(9)"
PoolJoin ==
    /\ pc \in {"closing_ok", "closing_exc", "closing_int"}
    /\ pool_joined(task_state)
    /\ CASE pc = "closing_ok" -> pc' = "returned" /\ UNCHANGED exit_status
         [] pc = "closing_exc" -> pc' = "traceback" /\ exit_status' = <<1>>
         [] pc = "closing_int" -> pc' = "interrupted" /\ exit_status' = <<9>>
    /\ UNCHANGED <<report, extractor_out, args, params, task_state, items, next_i,
                   building, moi_data, writes, invoked, outfile>>
    /\ UNCHANGED parse_vars

\* main after proc_vcfs: print_title, then sys.exit()
MainPrintTitleExit ==
    /\ pc = "returned"
    /\ outfile' = outfile \o print_title(args.cu, args.cl, args.cn, args.reads, args.pedmatch)
    /\ exit_status' = <<0>>
    /\ pc' = "exited"
    /\ UNCHANGED <<report, extractor_out, args, params, task_state, items, next_i,
                   building, moi_data, writes, invoked>>
    /\ UNCHANGED parse_vars

Next ==
    \/ GetArgs
    \/ MainCallProcVcfs
    \/ SingleIteration
    \/ SingleReturn
    \/ \E i \in 1..(2 * (MaxFiles + 1)) : WorkerTake(i)
    \/ \E i \in 1..(2 * (MaxFiles + 1)) : WorkerFinish(i)
    \/ IterNext
    \/ KeyboardInterrupt
    \/ PoolJoin
    \/ MainPrintTitleExit

Spec == Init /\ [][Next]_vars

-----------------------------------------------------------------------------
(* Properties of the program run *)

Pooled == args.num_procs >= 2
Listed == Range(args.vcf_files)
AllSucceed == \A v \in Listed : report[v].returncode = 0
SomeFails == \E v \in Listed : report[v].returncode # 0

Orders(fl) ==
    {[i \in 1..Len(fl) |-> fl[p[i]]] :
        p \in {q \in [1..Len(fl) -> 1..Len(fl)] : Range(q) = 1..Len(fl)}}

\* C1: when every report invocation succeeds, proc_vcfs ends - in the pooled
\* mode under every completion order, and in the sequential mode - the way
\* the sequential loop ends on the same files in any order: the same mapping
\* returned, or no mapping.
C1_PooledEqualsSequential ==
    (AllSucceed /\ pc \in {"returned", "exited", "traceback"}) =>
        \A fl \in Orders(args.vcf_files) :
            proc_vcfs_single(fl, params, report, extractor_out) = moi_data

C1_Witness ==
    /\ pc = "returned" /\ Pooled /\ AllSucceed
    /\ Cardinality(Listed) = 2
    /\ IsOk(items[1]) /\ items[1].val[1] # args.vcf_files[1]
    /\ IsOk(moi_data) /\ DOMAIN moi_data.val = Listed

row_line(row) == join(",", row) \o S("\n")

C2_classes == <<"snv_data", "cnv_data", "fusion_data", "null">>
C2_char_order == <<".", "A", "D", "N", "_", "a", "b", "c", "f", "v", "x">>
C2_rank(ch) == CHOOSE i \in 1..Len(C2_char_order) : C2_char_order[i] = ch

RECURSIVE C2_lex_less(_, _)
C2_lex_less(s, t) ==
    IF t = <<>> THEN FALSE
    ELSE IF s = <<>> THEN TRUE
    ELSE IF s[1] = t[1] THEN C2_lex_less(Tail(s), Tail(t))
    ELSE C2_rank(s[1]) < C2_rank(t[1])

C2_entries ==
    {e \in (DOMAIN moi_data.val) \X (1..4) :
        C2_classes[e[2]] \in DOMAIN moi_data.val[e[1]]}

C2_lines(e, from) ==
    {j \in (from + 1)..Len(outfile) :
        \E k \in DOMAIN moi_data.val[e[1]][C2_classes[e[2]]] :
            outfile[j] = row_line(moi_data.val[e[1]][C2_classes[e[2]]][k])}

\* C2: after a successful batch main writes the header row and then every
\* row of the batch result exactly once, samples in ascending order of their
\* identifier and, within a sample, classes in the order SNV, CNV, Fusion,
\* NoResult.  (The order of the rows within one class is not stated here.)
C2_HeaderThenEveryRow ==
    (pc = "exited" /\ IsOk(moi_data)) =>
        \E h \in 1..Len(outfile) :
            /\ outfile[h] = row_line(header)
            /\ \A e \in C2_entries :
                  \A k \in DOMAIN moi_data.val[e[1]][C2_classes[e[2]]] :
                      Cardinality({j \in (h + 1)..Len(outfile) :
                          outfile[j] = row_line(moi_data.val[e[1]][C2_classes[e[2]]][k])}) = 1
            /\ \A e1 \in C2_entries, e2 \in C2_entries :
                  (C2_lex_less(e1[1], e2[1]) \/ (e1[1] = e2[1] /\ e1[2] < e2[2])) =>
                      \A j1 \in C2_lines(e1, h), j2 \in C2_lines(e2, h) : j1 < j2

\* C5: when a report invocation fails, proc_vcfs returns no mapping and the
\* run ends on the error; and whenever an error leaves the pooled proc_vcfs,
\* every submitted task has finished (none is queued or running).
C5_FailureAbortsAfterDrain ==
    /\ SomeFails => (pc \notin {"returned", "exited"} /\ ~IsOk(moi_data))
    /\ (SomeFails /\ exit_status # NoInt /\ pc # "config_error") =>
          (pc \in {"traceback", "interrupted"} /\ exit_status # <<0>>)
    /\ (pc = "traceback" /\ Pooled) =>
          \A i \in 1..Len(task_state) : task_state[i] = "done"

C5_Witness ==
    /\ pc = "traceback" /\ Pooled /\ SomeFails
    /\ Len(task_state) >= 2
    /\ moi_data = Raise("Exception")
    /\ Len(items) > next_i + 1

ExactlyOneBound == (args.cu = NoInt) # (args.cl = NoInt)

\* C6: with exactly one of --cu and --cl supplied, whatever its value, the
\* run ends in get_args with a nonzero status, before any report invocation
\* starts and before anything is written to the report output.
C6_OneBoundIsFatal ==
    ExactlyOneBound =>
        /\ pc \in {"get_args", "config_error"}
        /\ pc = "config_error" => (exit_status # NoInt /\ exit_status # <<0>>)
        /\ invoked = 0
        /\ outfile = <<>>

WritesTo(v) == Cardinality({i \in 1..Len(writes) : writes[i][2] = v})
Occurrences(v) == Cardinality({i \in 1..Len(args.vcf_files) : args.vcf_files[i] = v})

\* C10 as claimed: for every input list, also one naming a file twice, each
\* entry of the mapping is written at most once, and no two writes are
\* concurrent.
C10_EachEntryWrittenOnce ==
    /\ \A i \in 1..Len(writes) : WritesTo(writes[i][2]) <= 1
    /\ \A i \in 1..Len(writes) : writes[i][1] = "main"

\* C10 amended: each entry is written at most once per occurrence of its file
\* in the input list - so at most once when the list names no file twice -
\* and every write is made by the thread that called proc_vcfs (pool workers
\* only return their results), so no two writes are concurrent.
C10_OneWritePerListedFile ==
    /\ \A i \in 1..Len(writes) :
          /\ writes[i][2] \in Listed
          /\ WritesTo(writes[i][2]) <= Occurrences(writes[i][2])
    /\ \A i \in 1..Len(writes) : writes[i][1] = "main"

C10_Witness ==
    /\ pc = "returned" /\ Pooled
    /\ Cardinality(Listed) = Len(args.vcf_files)
    /\ Len(args.vcf_files) >= 2
    /\ \A v \in Listed : WritesTo(v) = 1

====
